---- MODULE Spec2Model ----
(***************************************************************************)
(* Model of packages/isolated-extension-api/src/api/rpc-protocol.ts:       *)
(* two RPCProtocolImpl instances ("A" and "B"), each with its own          *)
(* RPCMultiplexer.  Spec is instance "A" on a connection that may deliver  *)
(* any batch; SpecE2E and SpecDispose join "A" and "B" by a                *)
(* MessageConnection that carries what the peer sent, in order.  SpecCodec  *)
(* applies MessageFactory, JSON.parse, the reply handlers and LazyPromise  *)
(* to single inputs, kept in codec.  SpecThrottle is one                    *)
(* FileNavigatorSearch.Throttle of packages/navigator/src/browser/         *)
(* navigator-search.ts with the timers of its window, kept in throttle.    *)
(***************************************************************************)
EXTENDS Integers, Sequences, FiniteSets, TLC

VARIABLES rpc, channel, sent, foreign, codec, throttle

vars == <<rpc, channel, sent, foreign, codec, throttle>>

\* ------------------------------------------------------------------ bounds
\* remoteCall invocations that allocate a call id, summed over both sides
MaxCalls == 2
\* requests received (handler promises created), per side
MaxHandlers == 2
\* batches the transport may deliver that no modelled peer has sent
MaxInject == 2
\* call ids allocated plus batches delivered that no modelled peer has sent
MaxEvents == 4
\* remoteCall invocations refused because the instance is disposed, per side
MaxRefused == 1
\* resolveOk / resolveErr invocations made on one LazyPromise
MaxSettles == 3
\* awaiters of one LazyPromise
MaxAwaiters == 2
\* characters of a proxy identifier, and of a method name after its $
MaxNameLen == 2
\* update calls made on the Throttle
MaxUpdates == 3
\* milliseconds the clock of the window runs for
MaxTime == 4

Sides == {"A", "B"}
Peer(s) == IF s = "A" THEN "B" ELSE "A"

\* ------------------------------------------------------- JavaScript values
Undefined == [k |-> "undefined"]
Null == [k |-> "null"]
Str(s) == [k |-> "string", s |-> s]
Bool(b) == [k |-> "boolean", b |-> b]
Num(n) == [k |-> "number", n |-> n]
Arr(items) == [k |-> "array", items |-> items]
\* an instance of Error
ErrorObj(name, message, stack) ==
    [k |-> "Error", name |-> name, message |-> message, stack |-> stack]
\* an instance of Error that also has an own property stacktrace (a string)
ErrorWithStacktrace(name, message, stack, stacktrace) ==
    [k |-> "Error", name |-> name, message |-> message, stack |-> stack,
     stacktrace |-> stacktrace]
\* a plain object with the fields of SerializedError
PlainErr(name, message, stack) ==
    [k |-> "object", isError |-> TRUE, name |-> name, message |-> message, stack |-> stack]
\* the plain object {}
EmptyObj == [k |-> "object", isError |-> FALSE, name |-> "", message |-> "", stack |-> ""]

\* new Error(message): name is "Error", the stack is made by the engine
NewError(message) == ErrorObj("Error", message, "Error: " \o message)

canceled == ErrorObj("Canceled", "Canceled", "Error: Canceled")

\* JSON.stringify of one value nested in an array: undefined becomes null,
\* an Error instance has no enumerable own property and becomes {}
JSONelem(v) ==
    CASE v.k = "undefined" -> Null
      [] v.k = "Error" -> EmptyObj
      [] OTHER -> v

\* JSON.stringify(v): the JSON text, kept as the value the text denotes
JSONstringify(v) ==
    CASE v.k = "array" -> [json |-> Arr([i \in 1..Len(v.items) |-> JSONelem(v.items[i])])]
      [] v.k = "Error" -> [json |-> EmptyObj]
      [] OTHER -> [json |-> v]

\* JSON.parse of a text produced by JSON.stringify
JSONparseValue(text) == text.json

\* transformErrorForSerialization that reads error.stack only
transformErrorForSerializationStackOnly(error) ==
    IF error.k = "Error"
    THEN PlainErr(error.name, error.message, error.stack)
    ELSE error

\* stack is error.stacktrace || error.stack: a property that is absent
\* (undefined) or the empty string is falsy
transformErrorForSerialization(error) ==
    IF error.k = "Error"
    THEN LET stack == IF "stacktrace" \in DOMAIN error /\ error.stacktrace # ""
                      THEN error.stacktrace
                      ELSE error.stack
         IN PlainErr(error.name, error.message, stack)
    ELSE error

\* --------------------------------------------------------- MessageFactory
Request == 1
Reply == 2
ReplyErr == 3

request(req, rpcId, method, args) ==
    [type |-> Request, id |-> req, proxyId |-> rpcId, method |-> method,
     args |-> JSONstringify(args)]

\* replyOK that never writes the res field
replyOKOmitsRes(req, res) == [type |-> Reply, id |-> req]

\* replyOK that tests !res in place of typeof res === 'undefined'
replyOKOmitsFalsy(req, res) ==
    IF res \in {Undefined, Null, Bool(FALSE), Num(0), Str("")}
    THEN [type |-> Reply, id |-> req]
    ELSE [type |-> Reply, id |-> req, res |-> JSONstringify(res)]

replyOK(req, res) ==
    IF res.k = "undefined"
    THEN [type |-> Reply, id |-> req]
    ELSE [type |-> Reply, id |-> req, res |-> JSONstringify(res)]

replyErr(req, err) ==
    IF err.k = "Error"
    THEN [type |-> ReplyErr, id |-> req,
          err |-> JSONstringify(transformErrorForSerialization(err))]
    ELSE [type |-> ReplyErr, id |-> req, err |-> JSONstringify(Null)]

\* JSON.parse(rawmsg) in receiveOneMessage: a field the text lacks reads as undefined
JSONparse(rawmsg) ==
    CASE rawmsg.type = Request ->
           [type |-> Request, id |-> rawmsg.id, proxyId |-> rawmsg.proxyId,
            method |-> rawmsg.method, args |-> JSONparseValue(rawmsg.args)]
      [] rawmsg.type = Reply ->
           [type |-> Reply, id |-> rawmsg.id,
            res |-> IF "res" \in DOMAIN rawmsg THEN JSONparseValue(rawmsg.res) ELSE Undefined]
      [] rawmsg.type = ReplyErr ->
           [type |-> ReplyErr, id |-> rawmsg.id,
            err |-> IF "err" \in DOMAIN rawmsg THEN JSONparseValue(rawmsg.err) ELSE Undefined]
      [] OTHER -> [type |-> rawmsg.type, id |-> rawmsg.id]

\* ------------------------------------------------------------ LazyPromise
\* A Deferred Result: Pending, then ResolvedOk or ResolvedErr, settled once.
\* calls counts the resolveOk / resolveErr invocations made on the object;
\* req is the request the promise awaits the reply of, with the number of
\* calls outstanding when it was issued.
LazyPromise(req) == [state |-> "Pending", value |-> Undefined, calls |-> 0, req |-> req]

\* resolveOk that settles a promise that is settled already
resolveOkOverwrites(lp, v) ==
    [lp EXCEPT !.state = "ResolvedOk", !.value = v, !.calls = @ + 1]

resolveOk(lp, v) ==
    IF lp.state = "Pending"
    THEN [lp EXCEPT !.state = "ResolvedOk", !.value = v, !.calls = @ + 1]
    ELSE [lp EXCEPT !.calls = @ + 1]

resolveErr(lp, e) ==
    IF lp.state = "Pending"
    THEN [lp EXCEPT !.state = "ResolvedErr", !.value = e, !.calls = @ + 1]
    ELSE [lp EXCEPT !.calls = @ + 1]

\* the outcome an awaiter is notified of
Outcome(lp) == [state |-> lp.state, value |-> lp.value]

\* d.lp with its awaiters d.seen: an awaiter keeps the number of settle calls
\* made before it subscribed (at) and the outcomes it was notified of (got).
\* An awaiter that subscribes to a settled promise is notified of its outcome.
subscribe(d) ==
    [d EXCEPT !.seen = Append(@, [at |-> d.lp.calls,
                                  got |-> IF d.lp.state = "Pending"
                                          THEN <<>>
                                          ELSE <<Outcome(d.lp)>>])]

\* lp2 is d.lp after a settle call: the awaiters are notified when the call
\* changed the outcome
notify(d, lp2) ==
    [d EXCEPT !.lp = lp2,
              !.seen = IF Outcome(lp2) # Outcome(d.lp)
                       THEN [i \in DOMAIN @ |-> [@[i] EXCEPT !.got = Append(@, Outcome(lp2))]]
                       ELSE @]

\* ------------------------------------------------------------- input sets
ProxyIds == {"mService"}
MethodNames == {"$greet", "$nope", "version"}
ArgLists == {Arr(<<Str("World")>>)}

\* the property names an application may read on a proxy: those of MethodNames,
\* a name with the dollar sign after its first character, and the empty name
PropertyNames == MethodNames \cup {"x$y", ""}

\* name.charCodeAt(0) for the names of PropertyNames; 36 is CharCode.DollarSign,
\* NaN (of the empty name) is kept as -1
charCodeAt0(name) ==
    CASE name = "$greet" -> 36
      [] name = "$nope" -> 36
      [] name = "version" -> 118
      [] name = "x$y" -> 120
      [] name = "" -> -1

\* object[key] of a JavaScript object kept as a function: undefined when absent
NoEntry == "undefined"
Get(object, key) == IF key \in DOMAIN object THEN object[key] ELSE NoEntry
Delete(object, key) == [x \in DOMAIN object \ {key} |-> object[x]]
Put(object, key, value) == (key :> value) @@ object
EmptyObject == [x \in {} |-> NoEntry]

\* the object registered as actor "mService": typeof of each of its members
ActorImpl == ("$greet" :> "function") @@ ("version" :> "string")
typeof(actor, name) == Get(actor, name)
\* what the handler history keeps when locals has no actor for the proxyId
NoActor == EmptyObject

\* what actor[methodName].apply(actor, args) may do
Outcomes ==
    {[kind |-> "return", value |-> Str("Hello, World")],
     [kind |-> "throw", value |-> ErrorObj("TypeError", "boom", "TypeError: boom")],
     [kind |-> "promise", value |-> Undefined]}

\* how a promise returned by an actor method may settle
Settlements ==
    {[state |-> "fulfilled", value |-> Undefined],
     [state |-> "rejected", value |-> Str("oops")]}

\* a promise may also reject with the Error another method throws
SettlementsWithError ==
    Settlements \cup
    {[state |-> "rejected", value |-> ErrorObj("TypeError", "boom", "TypeError: boom")]}

\* ------------------------------------------------- JSON texts by character
\* A text is a sequence of characters; a string value read from or written to
\* a text keeps its characters (cs).
StrOf(cs) == [k |-> "string", cs |-> cs]
\* an object read from a text: fields maps each key to its value
Obj(fields) == [k |-> "object", fields |-> fields]
\* what JSON.parse throws
SyntaxError == [k |-> "SyntaxError"]

Digits == {"0", "1", "2", "3", "4", "5", "6", "7", "8", "9"}
DigitValue(c) == CHOOSE n \in 0..9 : ToString(n) = c

\* the characters of a string as JSON.stringify writes them between the quotes
RECURSIVE escape(_)
escape(cs) ==
    IF cs = <<>>
    THEN <<>>
    ELSE (IF Head(cs) \in {"\"", "\\"} THEN <<"\\", Head(cs)>> ELSE <<Head(cs)>>)
            \o escape(Tail(cs))

\* JSON.stringify(v), for strings, numbers below ten and arrays of these
RECURSIVE stringifyText(_), stringifyItems(_)
stringifyText(v) ==
    CASE v.k = "string" -> <<"\"">> \o escape(v.cs) \o <<"\"">>
      [] v.k = "number" -> <<ToString(v.n)>>
      [] v.k = "array" -> <<"[">> \o stringifyItems(v.items) \o <<"]">>

stringifyItems(items) ==
    IF items = <<>>
    THEN <<>>
    ELSE stringifyText(Head(items))
            \o (IF Len(items) > 1 THEN <<",">> ELSE <<>>)
            \o stringifyItems(Tail(items))

\* the result of reading a value that ends before position next, or no result
Fail == [ok |-> FALSE]
Read(value, next) == [ok |-> TRUE, value |-> value, next |-> next]

\* the characters of a string literal whose opening quote is before position
\* i.  Of the escapes only \", \\ and \/ are read: no text of this model holds
\* b, f, n, r, t or u after a backslash inside a literal.
RECURSIVE scanString(_, _, _)
scanString(t, i, acc) ==
    IF i > Len(t)
    THEN Fail
    ELSE CASE t[i] = "\"" -> Read(acc, i + 1)
           [] t[i] = "\\" ->
                IF i + 1 <= Len(t) /\ t[i + 1] \in {"\"", "\\", "/"}
                THEN scanString(t, i + 2, Append(acc, t[i + 1]))
                ELSE Fail
           [] OTHER -> scanString(t, i + 1, Append(acc, t[i]))

RECURSIVE scanDigits(_, _, _)
scanDigits(t, i, n) ==
    IF i <= Len(t) /\ t[i] \in Digits
    THEN scanDigits(t, i + 1, 10 * n + DigitValue(t[i]))
    ELSE Read(Num(n), i)

RECURSIVE parseValue(_, _), parseElements(_, _, _), parseMembers(_, _, _)
parseValue(t, i) ==
    IF i > Len(t)
    THEN Fail
    ELSE CASE t[i] = "\"" ->
                LET r == scanString(t, i + 1, <<>>)
                IN IF r.ok THEN Read(StrOf(r.value), r.next) ELSE Fail
           [] t[i] = "[" ->
                IF i + 1 <= Len(t) /\ t[i + 1] = "]"
                THEN Read(Arr(<<>>), i + 2)
                ELSE parseElements(t, i + 1, <<>>)
           [] t[i] = "{" ->
                IF i + 1 <= Len(t) /\ t[i + 1] = "}"
                THEN Read(Obj(EmptyObject), i + 2)
                ELSE parseMembers(t, i + 1, EmptyObject)
           [] t[i] \in Digits -> scanDigits(t, i, 0)
           [] OTHER -> Fail

\* the elements of an array from position i on; acc holds those read already
parseElements(t, i, acc) ==
    LET r == parseValue(t, i)
    IN IF ~r.ok \/ r.next > Len(t)
       THEN Fail
       ELSE CASE t[r.next] = "," -> parseElements(t, r.next + 1, Append(acc, r.value))
              [] t[r.next] = "]" -> Read(Arr(Append(acc, r.value)), r.next + 1)
              [] OTHER -> Fail

\* the members of an object from position i on; of two members with one key
\* the later one stays
parseMembers(t, i, fields) ==
    IF i > Len(t) \/ t[i] # "\""
    THEN Fail
    ELSE LET key == scanString(t, i + 1, <<>>)
         IN IF ~key.ok \/ key.next > Len(t) \/ t[key.next] # ":"
            THEN Fail
            ELSE LET r == parseValue(t, key.next + 1)
                 IN IF ~r.ok \/ r.next > Len(t)
                    THEN Fail
                    ELSE CASE t[r.next] = "," ->
                                parseMembers(t, r.next + 1, Put(fields, key.value, r.value))
                           [] t[r.next] = "}" ->
                                Read(Obj(Put(fields, key.value, r.value)), r.next + 1)
                           [] OTHER -> Fail

\* JSON.parse(t): the value the whole text denotes, or a SyntaxError
JSONparseText(t) ==
    LET r == parseValue(t, 1)
    IN IF r.ok /\ r.next = Len(t) + 1 THEN r.value ELSE SyntaxError

\* the keys of a RequestMessage
KeyType == <<"t", "y", "p", "e">>
KeyId == <<"i", "d">>
KeyProxyId == <<"p", "r", "o", "x", "y", "I", "d">>
KeyMethod == <<"m", "e", "t", "h", "o", "d">>
KeyArgs == <<"a", "r", "g", "s">>

\* MessageFactory.request with every character of the template literal
requestText(req, rpcId, method, args) ==
    <<"{", "\"", "t", "y", "p", "e", "\"", ":">> \o <<ToString(Request)>>
       \o <<",", "\"", "i", "d", "\"", ":", "\"">> \o req
       \o <<"\"", ",", "\"", "p", "r", "o", "x", "y", "I", "d", "\"", ":", "\"">> \o rpcId
       \o <<"\"", ",", "\"", "m", "e", "t", "h", "o", "d", "\"", ":", "\"">> \o method
       \o <<"\"", ",", "\"", "a", "r", "g", "s", "\"", ":">> \o stringifyText(args)
       \o <<"}">>

\* ---------------------------------------------------------- RPCMultiplexer
\* immediates counts the sendAccumulatedBound callbacks given to setImmediate
\* and not run yet
\* send that gives sendAccumulatedBound to setImmediate on every call
sendSchedulesAlways(p, msg) ==
    [p EXCEPT !.immediates = @ + 1,
              !.messagesToSend = Append(@, msg),
              !.handed = Append(@, msg)]

\* send that starts a new queue with every message
sendOverwritesQueue(p, msg) ==
    [p EXCEPT !.immediates = IF Len(p.messagesToSend) = 0 THEN @ + 1 ELSE @,
              !.messagesToSend = <<msg>>,
              !.handed = Append(@, msg)]

\* handed keeps every message send was called with
send(p, msg) ==
    [p EXCEPT !.immediates = IF Len(p.messagesToSend) = 0 THEN @ + 1 ELSE @,
              !.messagesToSend = Append(@, msg),
              !.handed = Append(@, msg)]

\* sendAccumulated that leaves the queue as it is
sendAccumulatedKeepsQueue(p) ==
    [p EXCEPT !.immediates = @ - 1, !.issued = <<>>]

\* the state after sendAccumulated; its connection.send(tmp) is in SendAccumulated
sendAccumulated(p) ==
    [p EXCEPT !.messagesToSend = <<>>, !.immediates = @ - 1, !.issued = <<>>]

\* --------------------------------------------------------- RPCProtocolImpl
RPCProtocolImpl ==
    [isDisposed |-> FALSE,
     locals |-> EmptyObject,
     proxies |-> EmptyObject,
     lastMessageId |-> 0,
     invokedHandlers |-> EmptyObject,
     pendingRPCReplies |-> EmptyObject,
     messagesToSend |-> <<>>,
     immediates |-> 0,
     \* the promises made by invokeHandler and the LazyPromises made by remoteCall
     handlers |-> <<>>,
     lazy |-> <<>>,
     \* history: requests handed to send since the last flush, call ids whose
     \* reply came when the call was no longer outstanding, rejections returned
     \* by remoteCall, texts given to the per-message callback, identifiers
     \* createProxy was called with, messages handed to the multiplexer
     issued |-> <<>>,
     handed |-> <<>>,
     late |-> {},
     received |-> <<>>,
     created |-> <<>>,
     refused |-> <<>>]

\* remoteCall without the isDisposed test
remoteCallNoDisposedTest(p, proxyId, methodName, args) ==
    LET n == p.lastMessageId + 1
        callId == ToString(n)
        msg == request(callId, proxyId, methodName, args)
        req == [callId |-> callId, proxyId |-> proxyId, method |-> methodName, args |-> args,
                open |-> Cardinality(DOMAIN p.pendingRPCReplies)]
    IN send([p EXCEPT !.lastMessageId = n,
                      !.lazy = Append(@, LazyPromise(req)),
                      !.pendingRPCReplies = Put(@, callId, Len(p.lazy) + 1),
                      !.issued = Append(@, msg)],
            msg)

\* remoteCall that numbers a call by the size of the outstanding-call table
remoteCallReusesId(p, proxyId, methodName, args) ==
    IF p.isDisposed
    THEN [p EXCEPT !.refused = Append(@, canceled)]
    ELSE LET n == Cardinality(DOMAIN p.pendingRPCReplies) + 1
             callId == ToString(n)
             msg == request(callId, proxyId, methodName, args)
             req == [callId |-> callId, proxyId |-> proxyId, method |-> methodName, args |-> args,
                     open |-> Cardinality(DOMAIN p.pendingRPCReplies)]
         IN send([p EXCEPT !.lastMessageId = @ + 1,
                           !.lazy = Append(@, LazyPromise(req)),
                           !.pendingRPCReplies = Put(@, callId, Len(p.lazy) + 1),
                           !.issued = Append(@, msg)],
                 msg)

remoteCall(p, proxyId, methodName, args) ==
    IF p.isDisposed
    THEN [p EXCEPT !.refused = Append(@, canceled)]
    ELSE LET n == p.lastMessageId + 1
             callId == ToString(n)
             msg == request(callId, proxyId, methodName, args)
             req == [callId |-> callId, proxyId |-> proxyId, method |-> methodName, args |-> args,
                     open |-> Cardinality(DOMAIN p.pendingRPCReplies)]
         IN send([p EXCEPT !.lastMessageId = n,
                           !.lazy = Append(@, LazyPromise(req)),
                           !.pendingRPCReplies = Put(@, callId, Len(p.lazy) + 1),
                           !.issued = Append(@, msg)],
                 msg)

\* the proxy target: the set of names that hold a forwarding function
createProxy(proxyId) == {}

\* getProxy that makes a new proxy on every call
getProxyAlwaysCreates(p, proxyId) ==
    [p EXCEPT !.proxies = Put(@, proxyId, createProxy(proxyId)),
              !.created = Append(@, proxyId)]

getProxy(p, proxyId) ==
    IF proxyId \notin DOMAIN p.proxies
    THEN [p EXCEPT !.proxies = Put(@, proxyId, createProxy(proxyId)),
                   !.created = Append(@, proxyId)]
    ELSE p

\* a get trap that makes a forwarding function for every name
proxyGetAnyName(target, name) ==
    IF name \notin target
    THEN target \cup {name}
    ELSE target

\* the get trap of the proxy handler: the target after reading property name
proxyGet(target, name) ==
    IF name \notin target /\ charCodeAt0(name) = 36
    THEN target \cup {name}
    ELSE target

\* doInvokeHandler that invokes the method without looking the actor up
doInvokeHandlerNoActorTest(p, proxyId, methodName, args, o) ==
    [kind |-> o.kind, value |-> o.value, invoked |-> TRUE,
     actor |-> IF proxyId \in DOMAIN p.locals THEN p.locals[proxyId] ELSE NoActor]

doInvokeHandler(p, proxyId, methodName, args, o) ==
    IF proxyId \notin DOMAIN p.locals
    THEN [kind |-> "throw", value |-> NewError("Unknown actor " \o proxyId),
          invoked |-> FALSE, actor |-> NoActor]
    ELSE LET actor == p.locals[proxyId]
         IN IF typeof(actor, methodName) # "function"
            THEN [kind |-> "throw",
                  value |-> NewError("Unknown method " \o methodName \o " on actor " \o proxyId),
                  invoked |-> FALSE, actor |-> actor]
            ELSE [kind |-> o.kind, value |-> o.value, invoked |-> TRUE, actor |-> actor]

\* invokeHandler without the catch clause: a throw leaves no settled promise
invokeHandlerNoCatch(p, proxyId, methodName, args, o) ==
    LET r == doInvokeHandler(p, proxyId, methodName, args, o)
    IN [state |-> CASE r.kind = "return" -> "fulfilled"
                    [] r.kind = "throw" -> "pending"
                    [] r.kind = "promise" -> "pending",
        value |-> r.value, invoked |-> r.invoked, actor |-> r.actor,
        kind |-> r.kind]

\* the promise invokeHandler returns
invokeHandler(p, proxyId, methodName, args, o) ==
    LET r == doInvokeHandler(p, proxyId, methodName, args, o)
    IN [state |-> CASE r.kind = "return" -> "fulfilled"
                    [] r.kind = "throw" -> "rejected"
                    [] r.kind = "promise" -> "pending",
        value |-> r.value, invoked |-> r.invoked, actor |-> r.actor,
        \* whether doInvokeHandler returned a value, threw or returned a promise
        kind |-> r.kind]

receiveRequest(p, msg, o) ==
    LET callId == msg.id
        proxyId == msg.proxyId
        h == invokeHandler(p, proxyId, msg.method, msg.args, o)
        hid == Len(p.handlers) + 1
    IN [p EXCEPT !.handlers = Append(@, [state |-> h.state, value |-> h.value,
                                         invoked |-> h.invoked, actor |-> h.actor,
                                         kind |-> h.kind,
                                         callId |-> callId, proxyId |-> proxyId,
                                         method |-> msg.method, args |-> msg.args,
                                         thenRan |-> FALSE]),
                 !.invokedHandlers = Put(@, callId, hid)]

\* then callbacks that leave the entry in invokedHandlers
handlerThenKeepsEntry(p, hid) ==
    LET h == p.handlers[hid]
        msg == IF h.state = "fulfilled"
               THEN replyOK(h.callId, h.value)
               ELSE replyErr(h.callId, h.value)
    IN send([p EXCEPT !.handlers[hid].thenRan = TRUE], msg)

\* then callbacks that send nothing when the promise was rejected
handlerThenDropsRejection(p, hid) ==
    LET h == p.handlers[hid]
    IN IF h.state = "fulfilled"
       THEN send([p EXCEPT !.invokedHandlers = Delete(@, h.callId),
                           !.handlers[hid].thenRan = TRUE],
                 replyOK(h.callId, h.value))
       ELSE [p EXCEPT !.invokedHandlers = Delete(@, h.callId),
                      !.handlers[hid].thenRan = TRUE]

\* then callbacks that also delete the call id from pendingRPCReplies
handlerThenPurgesCall(p, hid) ==
    LET h == p.handlers[hid]
        msg == IF h.state = "fulfilled"
               THEN replyOK(h.callId, h.value)
               ELSE replyErr(h.callId, h.value)
    IN send([p EXCEPT !.invokedHandlers = Delete(@, h.callId),
                      !.pendingRPCReplies = Delete(@, h.callId),
                      !.handlers[hid].thenRan = TRUE],
            msg)

\* the callbacks receiveRequest passes to then, run once promise hid has settled
handlerThen(p, hid) ==
    LET h == p.handlers[hid]
        msg == IF h.state = "fulfilled"
               THEN replyOK(h.callId, h.value)
               ELSE replyErr(h.callId, h.value)
    IN send([p EXCEPT !.invokedHandlers = Delete(@, h.callId),
                      !.handlers[hid].thenRan = TRUE],
            msg)

\* whether remoteCall has given out callId
Allocated(p, callId) == \E n \in 1..Len(p.lazy) : p.lazy[n].req.callId = callId

\* receiveReply that leaves the entry in pendingRPCReplies
receiveReplyKeepsEntry(p, msg) ==
    LET callId == msg.id
    IN IF callId \notin DOMAIN p.pendingRPCReplies
       THEN [p EXCEPT !.late = IF Allocated(p, callId) THEN @ \cup {callId} ELSE @]
       ELSE LET pendingReply == p.pendingRPCReplies[callId]
            IN [p EXCEPT !.lazy[pendingReply] = resolveOk(@, msg.res)]

\* receiveReply that settles the oldest outstanding call, whatever the id
receiveReplyOldestFirst(p, msg) ==
    LET callId == msg.id
        keys == DOMAIN p.pendingRPCReplies
    IN IF callId \notin keys
       THEN [p EXCEPT !.late = IF Allocated(p, callId) THEN @ \cup {callId} ELSE @]
       ELSE LET oldest == CHOOSE c \in keys :
                              \A d \in keys : p.pendingRPCReplies[c] <= p.pendingRPCReplies[d]
                pendingReply == p.pendingRPCReplies[oldest]
            IN [p EXCEPT !.pendingRPCReplies = Delete(@, oldest),
                         !.lazy[pendingReply] = resolveOk(@, msg.res)]

receiveReply(p, msg) ==
    LET callId == msg.id
    IN IF callId \notin DOMAIN p.pendingRPCReplies
       THEN [p EXCEPT !.late = IF Allocated(p, callId) THEN @ \cup {callId} ELSE @]
       ELSE LET pendingReply == p.pendingRPCReplies[callId]
            IN [p EXCEPT !.pendingRPCReplies = Delete(@, callId),
                         !.lazy[pendingReply] = resolveOk(@, msg.res)]

\* receiveReplyErr that never rebuilds the Error
receiveReplyErrDropsError(p, msg) ==
    LET callId == msg.id
    IN IF callId \notin DOMAIN p.pendingRPCReplies
       THEN [p EXCEPT !.late = IF Allocated(p, callId) THEN @ \cup {callId} ELSE @]
       ELSE LET pendingReply == p.pendingRPCReplies[callId]
            IN [p EXCEPT !.pendingRPCReplies = Delete(@, callId),
                         !.lazy[pendingReply] = resolveErr(@, Null)]

receiveReplyErr(p, msg) ==
    LET callId == msg.id
    IN IF callId \notin DOMAIN p.pendingRPCReplies
       THEN [p EXCEPT !.late = IF Allocated(p, callId) THEN @ \cup {callId} ELSE @]
       ELSE LET pendingReply == p.pendingRPCReplies[callId]
                err == IF msg.err.k = "object" /\ msg.err.isError
                       THEN ErrorObj(msg.err.name, msg.err.message, msg.err.stack)
                       ELSE Null
            IN [p EXCEPT !.pendingRPCReplies = Delete(@, callId),
                         !.lazy[pendingReply] = resolveErr(@, err)]

\* receiveOneMessage that gives a reply of unknown id to the oldest outstanding call
receiveOneMessageOldestCall(p, rawmsg, o) ==
    IF p.isDisposed
    THEN p
    ELSE LET msg == JSONparse(rawmsg)
             keys == DOMAIN p.pendingRPCReplies
             oldest == CHOOSE c \in keys : \A d \in keys : p.pendingRPCReplies[c] <= p.pendingRPCReplies[d]
             id == IF msg.id \in keys \/ keys = {} THEN msg.id ELSE oldest
         IN CASE msg.type = Request -> receiveRequest(p, msg, o)
              [] msg.type = Reply -> receiveReply(p, [msg EXCEPT !.id = id])
              [] msg.type = ReplyErr -> receiveReplyErr(p, [msg EXCEPT !.id = id])
              [] OTHER -> p

\* receiveOneMessage whose switch treats any other type as a Reply without res
receiveOneMessageDefaultReply(p, rawmsg, o) ==
    IF p.isDisposed
    THEN p
    ELSE LET msg == JSONparse(rawmsg)
         IN CASE msg.type = Request -> receiveRequest(p, msg, o)
              [] msg.type = Reply -> receiveReply(p, msg)
              [] msg.type = ReplyErr -> receiveReplyErr(p, msg)
              [] OTHER -> receiveReply(p, [type |-> Reply, id |-> msg.id, res |-> Undefined])

\* receiveOneMessage without the isDisposed test
receiveOneMessageNoDisposedTest(p, rawmsg, o) ==
    LET msg == JSONparse(rawmsg)
    IN CASE msg.type = Request -> receiveRequest(p, msg, o)
         [] msg.type = Reply -> receiveReply(p, msg)
         [] msg.type = ReplyErr -> receiveReplyErr(p, msg)
         [] OTHER -> p

receiveOneMessage(p, rawmsg, o) ==
    IF p.isDisposed
    THEN p
    ELSE LET msg == JSONparse(rawmsg)
         IN CASE msg.type = Request -> receiveRequest(p, msg, o)
              [] msg.type = Reply -> receiveReply(p, msg)
              [] msg.type = ReplyErr -> receiveReplyErr(p, msg)
              [] OTHER -> p

\* the onMessage loop run from the last message of the batch to the first
RECURSIVE onMessageFromLast(_, _, _, _)
onMessageFromLast(p, data, os, i) ==
    IF i >= Len(data)
    THEN p
    ELSE CHOOSE r \in {onMessageFromLast(q, data, os, i + 1) :
                          q \in {[receiveOneMessage(p, data[Len(data) - i], os[Len(data) - i])
                                     EXCEPT !.received = Append(@, data[Len(data) - i])]}} : TRUE

\* the listener the RPCMultiplexer constructor gives to connection.onMessage;
\* os[i] is what the actor method does if data[i] invokes one; received keeps
\* the texts the per-message callback was called with, in call order
RECURSIVE onMessageFrom(_, _, _, _)
onMessageFrom(p, data, os, i) ==
    IF i >= Len(data)
    THEN p
    ELSE \* q is the state after onMessage(data[i]), computed once
         CHOOSE r \in {onMessageFrom(q, data, os, i + 1) :
                          q \in {[receiveOneMessage(p, data[i + 1], os[i + 1])
                                     EXCEPT !.received = Append(@, data[i + 1])]}} : TRUE

onMessage(p, data, os) == onMessageFrom(p, data, os, 0)

\* registerActor(identifier, implementation)
registerActor(p, id, implementation) ==
    [p EXCEPT !.locals = Put(@, id, implementation)]

\* disposal: every outstanding Deferred Result is settled with the cancellation
\* error, its entry is purged and the instance is marked Disposed
RECURSIVE cancelAll(_, _)
cancelAll(lazy, ids) ==
    IF ids = {}
    THEN lazy
    ELSE LET i == CHOOSE x \in ids : TRUE
         IN cancelAll([lazy EXCEPT ![i] = resolveErr(@, canceled)], ids \ {i})

\* disposal that only sets the flag
disposeFlagOnly(p) == [p EXCEPT !.isDisposed = TRUE]

dispose(p) ==
    [p EXCEPT !.isDisposed = TRUE,
              !.lazy = cancelAll(@, {p.pendingRPCReplies[c] : c \in DOMAIN p.pendingRPCReplies}),
              !.pendingRPCReplies = EmptyObject]

\* ------------------------------------------------- single codec exchanges
\* codec when no single exchange is followed
NoJob == [job |-> "none"]

\* an instance with call "1" outstanding, the caller of every exchange below
Caller == remoteCall(RPCProtocolImpl, "mService", "$greet", Arr(<<Str("World")>>))

\* what an actor method may return
Results == {Undefined, Null, Bool(FALSE), Num(0), Str(""), Str("Hello, World")}

ReplyOKJobs == {[job |-> "replyOK", stage |-> "input", res |-> v] : v \in Results}

\* the characters of identifiers and method names: a letter, the dollar sign,
\* the double quote and the backslash
NameChars == {"a", "$", "\"", "\\"}
NamesOf(n) == UNION {[1..m -> NameChars] : m \in 0..n}

\* call ids are String(++lastMessageId)
CallIds == {<<"1">>, <<"1", "0">>}
\* the id of a ProxyIdentifier is any string
ProxyIdTexts == NamesOf(1) \ {<<>>}
\* the names the proxy forwards: any property name that starts with $
MethodTexts == {<<"$">> \o n : n \in NamesOf(MaxNameLen)}
ArgTexts ==
    {Arr(<<>>),
     Arr(<<StrOf(<<"a">>)>>),
     Arr(<<StrOf(<<"\"">>), Num(1)>>),
     Arr(<<Num(1), StrOf(<<"a", "\\">>), Arr(<<StrOf(<<"$">>)>>)>>)}

RequestJobs ==
    {[job |-> "request", stage |-> "input", id |-> i, proxyId |-> p, method |-> m, args |-> a] :
        i \in CallIds, p \in ProxyIdTexts, m \in MethodTexts, a \in ArgTexts}

\* the Errors an actor method may throw or reject with
Errors ==
    {ErrorObj("TypeError", "boom", "TypeError: boom"),
     NewError("Unknown actor eGhost"),
     ErrorObj("Error", "", ""),
     ErrorWithStacktrace("Error", "boom", "Error: boom", ""),
     ErrorWithStacktrace("Error", "boom", "Error: boom", "Error: boom"),
     ErrorWithStacktrace("Error", "boom", "Error: boom", "boom@service.js:1"),
     ErrorWithStacktrace("RangeError", "deep", "", "deep@service.js:2")}

ReplyErrJobs == {[job |-> "replyErr", stage |-> "input", err |-> e] : e \in Errors}

\* the LazyPromise remoteCall returned for call "1", with no awaiter yet;
\* calls keeps the settle calls made on it
LazyJobs == {[job |-> "lazy", lp |-> Caller.lazy[1], seen |-> <<>>, calls |-> <<>>]}

\* the values receiveReply, receiveReplyErr and disposal settle a promise with
OkValues == {Undefined, Str("Hello, World")}
ErrValues == {Null, canceled}

\* ---------------------------------------------- FileNavigatorSearch.Throttle
\* options.delay, in milliseconds
ThrottleDelay == 2

\* A Throttle after construction, with its window: timer and state are the
\* fields of the class; timeouts maps the handle of every timeout the window
\* has pending to the time it was set at, handles counts the setTimeout calls
\* (a handle is a positive number), now is the clock.  fired keeps the values
\* the emitter fired, each with the time, the time of the last update with a
\* defined input, the number of update calls and the defined inputs given
\* since the last update(undefined).
Throttle ==
    [timer |-> Undefined,
     state |-> Undefined,
     timeouts |-> EmptyObject,
     handles |-> 0,
     now |-> 0,
     fired |-> <<>>,
     lastUpdate |-> 0,
     updates |-> 0,
     inputs |-> <<>>]

\* what update may be called with
ThrottleInputs == {Undefined, Str("a"), Str("b"), Str("")}

\* if (v) for a string or undefined
Truthy(v) == v.k = "string" /\ v.s # ""

clearTimer(t) ==
    IF t.timer # Undefined
    THEN [t EXCEPT !.timeouts = Delete(@, t.timer.n), !.timer = Undefined]
    ELSE t

fireChanged(t, value) ==
    [clearTimer(t) EXCEPT !.fired = Append(@, [value |-> value, at |-> t.now,
                                               lastUpdate |-> t.lastUpdate,
                                               updates |-> t.updates,
                                               inputs |-> t.inputs])]

reset(t) == fireChanged([t EXCEPT !.state = Undefined], Undefined)

\* update that sets the new timer without clearing the pending one
updateKeepsTimer(t, input) ==
    IF input = Undefined
    THEN reset([t EXCEPT !.updates = @ + 1, !.inputs = <<>>])
    ELSE LET h == t.handles + 1
         IN [t EXCEPT !.state = IF Truthy(t.state) THEN Str(t.state.s \o input.s) ELSE input,
                      !.timer = Num(h),
                      !.handles = h,
                      !.timeouts = Put(@, h, t.now),
                      !.lastUpdate = t.now,
                      !.updates = @ + 1,
                      !.inputs = Append(@, input)]

update(t, input) ==
    IF input = Undefined
    THEN reset([t EXCEPT !.updates = @ + 1, !.inputs = <<>>])
    ELSE LET c == clearTimer(t)
             h == c.handles + 1
         IN [c EXCEPT !.state = IF Truthy(c.state) THEN Str(c.state.s \o input.s) ELSE input,
                      !.timer = Num(h),
                      !.handles = h,
                      !.timeouts = Put(@, h, c.now),
                      !.lastUpdate = c.now,
                      !.updates = @ + 1,
                      !.inputs = Append(@, input)]

\* the callback given to setTimeout, run by the window for handle h
timeout(t, h) ==
    LET w == [t EXCEPT !.timeouts = Delete(@, h)]
    IN fireChanged(w, w.state)

\* ------------------------------------------------------------ the system
\* messages a foreign or faulty transport may deliver
RawMsgs ==
    {request("1", "mService", "$greet", Arr(<<Str("World")>>)),
     request("1", "eGhost", "$greet", Arr(<<Str("World")>>)),
     request("2", "mService", "version", Arr(<<Str("World")>>)),
     replyOK("1", Str("Hello, World")),
     replyErr("1", ErrorObj("TypeError", "boom", "TypeError: boom")),
     replyErr("2", Str("oops")),
     [type |-> 4, id |-> "1"]}

Requests(data) == SelectSeq(data, LAMBDA m : m.type = Request)

\* the then callbacks of settled promises are microtasks: side s runs them
\* before its next setImmediate callback or connection event
MicrotasksPending(s) ==
    \E hid \in 1..Len(rpc[s].handlers) :
        rpc[s].handlers[hid].state # "pending" /\ ~rpc[s].handlers[hid].thenRan

Init ==
    /\ rpc = [s \in Sides |-> RPCProtocolImpl]
    /\ channel = [s \in Sides |-> <<>>]
    /\ sent = [s \in Sides |-> <<>>]
    /\ foreign = 0
    /\ codec = NoJob
    /\ throttle = Throttle

\* the application registers the actor "mService" on side s
RegisterActor(s) ==
    /\ "mService" \notin DOMAIN rpc[s].locals
    /\ rpc' = [rpc EXCEPT ![s] = registerActor(@, "mService", ActorImpl)]
    /\ UNCHANGED <<channel, sent, foreign, codec, throttle>>

\* the application reads a property, one of names, of getProxy(id) on side s
\* and, when the property holds a function, calls it with args
ProxyCall(s, names) ==
    /\ \E id \in ProxyIds, name \in names, args \in ArgLists :
          LET p1 == getProxy(rpc[s], id)
              target == proxyGet(p1.proxies[id], name)
              p2 == [p1 EXCEPT !.proxies[id] = target]
          IN IF name \in target
             THEN /\ IF p2.isDisposed
                     THEN Len(p2.refused) < MaxRefused
                     ELSE /\ rpc["A"].lastMessageId + rpc["B"].lastMessageId < MaxCalls
                          /\ rpc["A"].lastMessageId + rpc["B"].lastMessageId + foreign < MaxEvents
                  /\ rpc' = [rpc EXCEPT ![s] = remoteCall(p2, id, name, args)]
             ELSE /\ p2 # rpc[s]
                  /\ rpc' = [rpc EXCEPT ![s] = p2]
    /\ UNCHANGED <<channel, sent, foreign, codec, throttle>>

\* a setImmediate callback of side s runs
SendAccumulated(s) ==
    /\ ~MicrotasksPending(s)
    /\ rpc[s].immediates > 0
    /\ LET tmp == rpc[s].messagesToSend
       IN /\ rpc' = [rpc EXCEPT ![s] = sendAccumulated(@)]
          /\ channel' = [channel EXCEPT ![s] = Append(@, tmp)]
          /\ sent' = [sent EXCEPT ![s] = Append(@, tmp)]
    /\ UNCHANGED <<foreign, codec, throttle>>

\* the connection of side s fires onMessage with the oldest batch in flight
Deliver(s) ==
    /\ ~MicrotasksPending(s)
    /\ channel[Peer(s)] # <<>>
    /\ LET data == Head(channel[Peer(s)])
       IN /\ rpc[s].isDisposed \/ Len(rpc[s].handlers) + Len(Requests(data)) <= MaxHandlers
          /\ \E os \in [1..Len(data) -> Outcomes] :
                rpc' = [rpc EXCEPT ![s] = onMessage(@, data, os)]
    /\ channel' = [channel EXCEPT ![Peer(s)] = Tail(@)]
    /\ UNCHANGED <<sent, foreign, codec, throttle>>

\* a promise returned by an actor method of side s settles in one of the ways sts
ActorSettle(s, sts) ==
    \E hid \in 1..Len(rpc[s].handlers), st \in sts :
        /\ rpc[s].handlers[hid].state = "pending"
        /\ rpc' = [rpc EXCEPT ![s].handlers[hid].state = st.state,
                              ![s].handlers[hid].value = st.value]
        /\ UNCHANGED <<channel, sent, foreign, codec, throttle>>

\* the then callback of a settled handler promise of side s runs
HandlerThen(s) ==
    \E hid \in 1..Len(rpc[s].handlers) :
        /\ rpc[s].handlers[hid].state # "pending"
        /\ ~rpc[s].handlers[hid].thenRan
        /\ rpc' = [rpc EXCEPT ![s] = handlerThen(@, hid)]
        /\ UNCHANGED <<channel, sent, foreign, codec, throttle>>

\* the protocol instance of side s is disposed
Dispose(s) ==
    /\ ~rpc[s].isDisposed
    /\ rpc' = [rpc EXCEPT ![s] = dispose(@)]
    /\ UNCHANGED <<channel, sent, foreign, codec, throttle>>

\* the connection of side s fires onMessage with a batch its peer did not send
Inject(s) ==
    /\ ~MicrotasksPending(s)
    /\ foreign < MaxInject
    /\ rpc["A"].lastMessageId + rpc["B"].lastMessageId + foreign < MaxEvents
    /\ \E m \in RawMsgs, o \in Outcomes :
          /\ rpc[s].isDisposed \/ Len(rpc[s].handlers) + Len(Requests(<<m>>)) <= MaxHandlers
          /\ rpc' = [rpc EXCEPT ![s] = onMessage(@, <<m>>, <<o>>)]
    /\ foreign' = foreign + 1
    /\ UNCHANGED <<channel, sent, codec, throttle>>

\* messages whose type is none of Request, Reply, ReplyErr
UnknownMsgs == {[type |-> 0, id |-> "1"], [type |-> 4, id |-> "1"]}

\* messages of the three known types
BatchMsgs ==
    {request("1", "mService", "$greet", Arr(<<Str("World")>>)),
     replyOK("1", Str("Hello, World")),
     replyErr("1", ErrorObj("TypeError", "boom", "TypeError: boom"))}

\* the batches of two messages a foreign or faulty transport may deliver: a
\* message of type 4 before a request, before a reply or after an error reply
Batches ==
    {<<[type |-> 4, id |-> "1"], request("1", "mService", "$greet", Arr(<<Str("World")>>))>>,
     <<[type |-> 4, id |-> "1"], replyOK("1", Str("Hello, World"))>>,
     <<replyErr("1", ErrorObj("TypeError", "boom", "TypeError: boom")), [type |-> 4, id |-> "1"]>>}

\* the connection of side s fires onMessage with a batch of two messages its
\* peer did not send
InjectBatch(s) ==
    /\ ~MicrotasksPending(s)
    /\ foreign < MaxInject
    /\ rpc["A"].lastMessageId + rpc["B"].lastMessageId + foreign < MaxEvents
    /\ \E data \in Batches, o \in Outcomes :
          /\ rpc[s].isDisposed \/ Len(rpc[s].handlers) + Len(Requests(data)) <= MaxHandlers
          /\ rpc' = [rpc EXCEPT ![s] = onMessage(@, data, <<o, o>>)]
    /\ foreign' = foreign + 1
    /\ UNCHANGED <<channel, sent, codec, throttle>>

\* side A registers the actor, side B calls it, batches travel in order
NextE2E ==
    \/ RegisterActor("A")
    \/ ProxyCall("B", MethodNames)
    \/ \E s \in Sides :
          \/ SendAccumulated(s)
          \/ Deliver(s)
          \/ ActorSettle(s, SettlementsWithError)
          \/ HandlerThen(s)

\* one instance that registers the actor and calls through proxies, on a
\* connection that delivers any batch at any time
Next ==
    \/ RegisterActor("A")
    \/ ProxyCall("A", {"$greet", "version"})
    \/ SendAccumulated("A")
    \/ Inject("A")
    \/ ActorSettle("A", Settlements)
    \/ HandlerThen("A")

Spec == Init /\ [][Next]_vars

\* two instances joined by an ordered reliable channel
SpecE2E == Init /\ [][NextE2E]_vars

NextDispose ==
    \/ RegisterActor("A")
    \/ ProxyCall("B", {"$greet"})
    \/ \E s \in Sides :
          \/ SendAccumulated(s)
          \/ Deliver(s)
          \/ ActorSettle(s, Settlements)
          \/ HandlerThen(s)
          \/ Dispose(s)

\* two instances joined by an ordered reliable channel, either may be disposed
SpecDispose == Init /\ [][NextDispose]_vars

\* a setImmediate callback, a delivery of the transport, the settling of a
\* promise an actor method returned or a then callback
Progress ==
    \E s \in Sides :
        \/ SendAccumulated(s)
        \/ Deliver(s)
        \/ ActorSettle(s, Settlements)
        \/ HandlerThen(s)

\* side A may register the actor, side B calls $greet, every other step is Progress
NextLive ==
    \/ RegisterActor("A")
    \/ ProxyCall("B", {"$greet"})
    \/ Progress

\* the event loops and the transport do not stop while one of them has work
Fairness == WF_vars(Progress)

\* two instances joined by an ordered reliable channel, with both event loops
\* and the transport running for ever
SpecLive == Init /\ [][NextLive]_vars /\ Fairness

\* one instance that registers the actor and calls through proxies, on a
\* connection that delivers batches of two messages
NextBatch ==
    \/ RegisterActor("A")
    \/ ProxyCall("A", {"$greet"})
    \/ SendAccumulated("A")
    \/ InjectBatch("A")
    \/ ActorSettle("A", Settlements)
    \/ HandlerThen("A")

SpecBatch == Init /\ [][NextBatch]_vars

\* the callee encodes the reply to call "1" whose handler returned codec.res
EncodeReplyOK ==
    /\ codec.job = "replyOK"
    /\ codec.stage = "input"
    /\ codec' = [job |-> "replyOK", stage |-> "encoded", res |-> codec.res,
                 text |-> replyOK("1", codec.res), caller |-> Caller]
    /\ UNCHANGED <<rpc, channel, sent, foreign, throttle>>

\* the callee encodes the reply to call "1" whose handler failed with codec.err
EncodeReplyErr ==
    /\ codec.job = "replyErr"
    /\ codec.stage = "input"
    /\ codec' = [job |-> "replyErr", stage |-> "encoded", err |-> codec.err,
                 text |-> replyErr("1", codec.err), caller |-> Caller]
    /\ UNCHANGED <<rpc, channel, sent, foreign, throttle>>

\* the caller's receiveOneMessage is given the encoded reply
ReceiveReplyText ==
    /\ codec.job \in {"replyOK", "replyErr"}
    /\ codec.stage = "encoded"
    /\ codec' = [codec EXCEPT !.stage = "decoded",
                              !.caller = receiveOneMessage(@, codec.text,
                                                           CHOOSE o \in Outcomes : TRUE)]
    /\ UNCHANGED <<rpc, channel, sent, foreign, throttle>>

\* remoteCall encodes the request
EncodeRequest ==
    /\ codec.job = "request"
    /\ codec.stage = "input"
    /\ codec' = [job |-> "request", stage |-> "encoded", id |-> codec.id,
                 proxyId |-> codec.proxyId, method |-> codec.method, args |-> codec.args,
                 text |-> requestText(codec.id, codec.proxyId, codec.method, codec.args)]
    /\ UNCHANGED <<rpc, channel, sent, foreign, throttle>>

\* the peer's receiveOneMessage decodes the text
ParseRequest ==
    /\ codec.job = "request"
    /\ codec.stage = "encoded"
    /\ codec' = [job |-> "request", stage |-> "decoded", id |-> codec.id,
                 proxyId |-> codec.proxyId, method |-> codec.method, args |-> codec.args,
                 text |-> codec.text, msg |-> JSONparseText(codec.text)]
    /\ UNCHANGED <<rpc, channel, sent, foreign, throttle>>

\* resolveOk(v) is called on the promise
ResolveOk ==
    /\ codec.job = "lazy"
    /\ Len(codec.calls) < MaxSettles
    /\ \E v \in OkValues :
          codec' = [notify(codec, resolveOk(codec.lp, v))
                       EXCEPT !.calls = Append(@, [state |-> "ResolvedOk", value |-> v])]
    /\ UNCHANGED <<rpc, channel, sent, foreign, throttle>>

\* resolveErr(e) is called on the promise
ResolveErr ==
    /\ codec.job = "lazy"
    /\ Len(codec.calls) < MaxSettles
    /\ \E e \in ErrValues :
          codec' = [notify(codec, resolveErr(codec.lp, e))
                       EXCEPT !.calls = Append(@, [state |-> "ResolvedErr", value |-> e])]
    /\ UNCHANGED <<rpc, channel, sent, foreign, throttle>>

\* one more consumer awaits the promise
Subscribe ==
    /\ codec.job = "lazy"
    /\ Len(codec.seen) < MaxAwaiters
    /\ codec' = subscribe(codec)
    /\ UNCHANGED <<rpc, channel, sent, foreign, throttle>>

\* one exchange of those above, from its input on
InitCodec ==
    /\ rpc = [s \in Sides |-> RPCProtocolImpl]
    /\ channel = [s \in Sides |-> <<>>]
    /\ sent = [s \in Sides |-> <<>>]
    /\ foreign = 0
    /\ codec \in ReplyOKJobs \cup ReplyErrJobs \cup RequestJobs \cup LazyJobs
    /\ throttle = Throttle

NextCodec ==
    \/ EncodeReplyOK
    \/ EncodeReplyErr
    \/ ReceiveReplyText
    \/ EncodeRequest
    \/ ParseRequest
    \/ ResolveOk
    \/ ResolveErr
    \/ Subscribe

SpecCodec == InitCodec /\ [][NextCodec]_vars

\* the search box calls update
Update ==
    /\ throttle.updates < MaxUpdates
    /\ \E input \in ThrottleInputs : throttle' = update(throttle, input)
    /\ UNCHANGED <<rpc, channel, sent, foreign, codec>>

\* the window runs the callback of a timeout whose delay has passed
Timeout ==
    /\ \E h \in DOMAIN throttle.timeouts :
          /\ throttle.now - throttle.timeouts[h] >= ThrottleDelay
          /\ throttle' = timeout(throttle, h)
    /\ UNCHANGED <<rpc, channel, sent, foreign, codec>>

\* a millisecond passes
Tick ==
    /\ throttle.now < MaxTime
    /\ throttle' = [throttle EXCEPT !.now = @ + 1]
    /\ UNCHANGED <<rpc, channel, sent, foreign, codec>>

NextThrottle == Update \/ Timeout \/ Tick

\* one Throttle, the search box that updates it and the timers of the window
SpecThrottle == Init /\ [][NextThrottle]_vars

\* ------------------------------------------------------------- properties
RECURSIVE Flatten(_)
Flatten(batches) ==
    IF batches = <<>> THEN <<>> ELSE Head(batches) \o Flatten(Tail(batches))

\* every message side s has handed to its multiplexer, in order
Out(s) == Flatten(sent[s]) \o rpc[s].messagesToSend

Count(seq, Test(_)) == Len(SelectSeq(seq, Test))

HandlerIds(s) == 1..Len(rpc[s].handlers)
LazyIds(s) == 1..Len(rpc[s].lazy)

HandlersOf(s, c, state) ==
    {hid \in HandlerIds(s) :
        /\ rpc[s].handlers[hid].callId = c
        /\ rpc[s].handlers[hid].thenRan
        /\ rpc[s].handlers[hid].state = state}

\* C1: for every call id, the Reply messages handed to the multiplexer are as
\* many as the fulfilled handlers of that id whose callback has run, the ReplyErr
\* messages as many as the rejected ones (one reply per settled request, of one
\* kind, with the request's id), and no entry of invokedHandlers refers to a
\* handler whose callback has run.
C1_OneReplyPerRequest ==
    \A s \in Sides :
        LET out == Out(s)
            seen == {rpc[s].handlers[hid].callId : hid \in HandlerIds(s)}
                    \cup {out[i].id : i \in 1..Len(out)}
        IN /\ \A c \in seen :
                 /\ Count(out, LAMBDA m : m.type = Reply /\ m.id = c)
                      = Cardinality(HandlersOf(s, c, "fulfilled"))
                 /\ Count(out, LAMBDA m : m.type = ReplyErr /\ m.id = c)
                      = Cardinality(HandlersOf(s, c, "rejected"))
           /\ \A c \in DOMAIN rpc[s].invokedHandlers :
                 ~rpc[s].handlers[rpc[s].invokedHandlers[c]].thenRan
           /\ \A hid \in HandlerIds(s) :
                 rpc[s].handlers[hid].thenRan => rpc[s].handlers[hid].state # "pending"

\* a fulfilled and a rejected handler have both replied and the table is empty
C1_Witness ==
    \E s \in Sides : \E h1, h2 \in HandlerIds(s) :
        /\ rpc[s].handlers[h1].thenRan /\ rpc[s].handlers[h1].state = "fulfilled"
        /\ rpc[s].handlers[h2].thenRan /\ rpc[s].handlers[h2].state = "rejected"
        /\ DOMAIN rpc[s].invokedHandlers = {}

\* C2: when side s flushes, it makes one connection.send, whose batch holds the
\* requests of the remoteCall invocations made since the previous flush, in
\* issuance order, and nothing stays queued or scheduled; between flushes the
\* queued requests are those invocations' and at most one flush is scheduled.
C2_OneSendPerTurn ==
    [][\A s \in Sides :
          /\ Requests(rpc[s].messagesToSend) = rpc[s].issued
          /\ rpc[s].immediates = (IF rpc[s].messagesToSend = <<>> THEN 0 ELSE 1)
          /\ sent'[s] # sent[s] =>
                /\ Len(sent'[s]) = Len(sent[s]) + 1
                /\ SubSeq(sent'[s], 1, Len(sent[s])) = sent[s]
                /\ channel'[s] = Append(channel[s], sent'[s][Len(sent'[s])])
                /\ Requests(sent'[s][Len(sent'[s])]) = rpc[s].issued
                /\ rpc'[s].messagesToSend = <<>>
                /\ rpc'[s].immediates = 0]_vars

\* one batch carried two requests
C2_Witness ==
    \E s \in Sides : \E i \in 1..Len(sent[s]) : Len(Requests(sent[s][i])) >= 2

\* C3: a step that disposes side s settles every entry of pendingRPCReplies
\* with the cancellation error, empties the table and sets isDisposed; in a
\* disposed instance no LazyPromise is pending.
C3_DisposeCancelsAll ==
    [][\A s \in Sides :
          /\ (~rpc[s].isDisposed /\ rpc'[s].isDisposed) =>
                /\ \A c \in DOMAIN rpc[s].pendingRPCReplies :
                      /\ rpc'[s].lazy[rpc[s].pendingRPCReplies[c]].state = "ResolvedErr"
                      /\ rpc'[s].lazy[rpc[s].pendingRPCReplies[c]].value = canceled
                /\ DOMAIN rpc'[s].pendingRPCReplies = {}
          /\ rpc[s].isDisposed =>
                \A n \in LazyIds(s) : rpc[s].lazy[n].state # "Pending"]_vars

\* side s was disposed with two calls outstanding
C3_Witness ==
    \E s \in Sides :
        /\ rpc[s].isDisposed
        /\ Cardinality({n \in LazyIds(s) : rpc[s].lazy[n].value = canceled}) >= 2

\* C4: in every disposed instance, remoteCall returns the rejection with the
\* Canceled error and leaves the counter, the outstanding-call table, the
\* LazyPromises, the outbound queue and the scheduled flushes as they were.
C4_DisposedCallRejected ==
    \A s \in Sides :
        rpc[s].isDisposed =>
            /\ \A id \in ProxyIds, name \in MethodNames, args \in ArgLists :
                  LET q == remoteCall(rpc[s], id, name, args)
                  IN /\ q.refused = Append(rpc[s].refused, ErrorObj("Canceled", "Canceled", "Error: Canceled"))
                     /\ q.lastMessageId = rpc[s].lastMessageId
                     /\ q.pendingRPCReplies = rpc[s].pendingRPCReplies
                     /\ q.lazy = rpc[s].lazy
                     /\ q.messagesToSend = rpc[s].messagesToSend
                     /\ q.immediates = rpc[s].immediates
            /\ Len(rpc[s].lazy) = rpc[s].lastMessageId
            /\ Count(Out(s), LAMBDA m : m.type = Request) = rpc[s].lastMessageId

\* a disposed instance has refused a call
C4_Witness ==
    \E s \in Sides : rpc[s].isDisposed /\ Len(rpc[s].refused) >= 1

\* the ReplyErr text of call id c whose error carries message
IsReplyErrWith(m, c, message) ==
    /\ m.type = ReplyErr
    /\ m.id = c
    /\ JSONparse(m).err.k = "object"
    /\ JSONparse(m).err.isError
    /\ JSONparse(m).err.message = message

\* C5: a handler of a request whose proxyId is not registered invoked no actor
\* method, is rejected with Error('Unknown actor ' + proxyId), and once its
\* callback has run a ReplyErr with the request's id and that message was sent.
C5_UnknownActor ==
    \A s \in Sides : \A hid \in HandlerIds(s) :
        LET h == rpc[s].handlers[hid]
        IN h.proxyId \notin DOMAIN rpc[s].locals =>
              /\ ~h.invoked
              /\ h.state = "rejected"
              /\ h.value.k = "Error"
              /\ h.value.message = "Unknown actor " \o h.proxyId
              /\ h.thenRan =>
                    LET out == Out(s)
                    IN /\ Count(out, LAMBDA m : IsReplyErrWith(m, h.callId, "Unknown actor " \o h.proxyId)) >= 1
                       /\ Count(out, LAMBDA m : m.type = Reply /\ m.id = h.callId)
                            = Cardinality(HandlersOf(s, h.callId, "fulfilled"))

\* a request for an unregistered proxyId was answered while an actor is registered
C5_Witness ==
    \E s \in Sides : \E hid \in HandlerIds(s) :
        /\ rpc[s].handlers[hid].proxyId \notin DOMAIN rpc[s].locals
        /\ rpc[s].handlers[hid].thenRan
        /\ DOMAIN rpc[s].locals # {}

UnknownMethod(h) == "Unknown method " \o h.method \o " on actor " \o h.proxyId

\* C6: a handler of a request whose proxyId is registered and whose method is
\* not a function member of the actor invoked nothing and is rejected with
\* Error('Unknown method <method> on actor <proxyId>'); once its callback has
\* run a ReplyErr with the request's id and that message was sent; and once the
\* peer's call of that id is settled, it is rejected with an Error carrying
\* that message.
C6_UnknownMethod ==
    \A s \in Sides : \A hid \in HandlerIds(s) :
        LET h == rpc[s].handlers[hid]
        IN (h.actor # NoActor /\ typeof(h.actor, h.method) # "function") =>
              /\ ~h.invoked
              /\ h.state = "rejected"
              /\ h.value.k = "Error"
              /\ h.value.message = UnknownMethod(h)
              /\ h.thenRan =>
                    Count(Out(s), LAMBDA m : IsReplyErrWith(m, h.callId, UnknownMethod(h))) = 1
              /\ \A n \in LazyIds(Peer(s)) :
                    LET lp == rpc[Peer(s)].lazy[n]
                    IN (lp.req.callId = h.callId /\ lp.state # "Pending") =>
                          /\ lp.state = "ResolvedErr"
                          /\ lp.value.k = "Error"
                          /\ lp.value.message = UnknownMethod(h)

\* the call of $nope on a registered actor was rejected at the caller
C6_Witness ==
    \E s \in Sides : \E hid \in HandlerIds(s) : \E n \in LazyIds(Peer(s)) :
        /\ rpc[s].handlers[hid].actor # NoActor
        /\ rpc[s].handlers[hid].method = "$nope"
        /\ rpc[Peer(s)].lazy[n].req.callId = rpc[s].handlers[hid].callId
        /\ rpc[Peer(s)].lazy[n].state = "ResolvedErr"

\* C7: every LazyPromise made by remoteCall is in pendingRPCReplies, under its
\* own call id only, exactly while it is pending, and resolveOk / resolveErr
\* has been invoked on it once if it is settled and never otherwise, however
\* many replies for its id were received.
C7_SettledOnce ==
    \A s \in Sides :
        /\ \A n \in LazyIds(s) :
              LET lp == rpc[s].lazy[n]
              IN /\ lp.calls <= 1
                 /\ (lp.calls = 1) = (lp.state # "Pending")
                 /\ (lp.state = "Pending") = (lp.req.callId \in DOMAIN rpc[s].pendingRPCReplies)
        /\ \A c \in DOMAIN rpc[s].pendingRPCReplies :
              /\ rpc[s].pendingRPCReplies[c] \in LazyIds(s)
              /\ rpc[s].lazy[rpc[s].pendingRPCReplies[c]].req.callId = c

\* a reply arrived for a call id that had been given out and was settled before
C7_Witness ==
    \E s \in Sides : \E n \in LazyIds(s) :
        /\ rpc[s].lazy[n].req.callId \in rpc[s].late
        /\ rpc[s].lazy[n].calls = 1

\* the fields of a protocol instance other than the history of late replies
Tables(p) ==
    <<p.isDisposed, p.locals, p.proxies, p.lastMessageId, p.invokedHandlers,
      p.pendingRPCReplies, p.messagesToSend, p.immediates, p.handlers, p.lazy>>

\* C8: in every state of a live instance, receiving any Reply or ReplyErr whose
\* id is not a key of pendingRPCReplies leaves every table, every LazyPromise,
\* the counter, the outbound queue and the scheduled flushes unchanged.
C8_StrayReplyIgnored ==
    \A s \in Sides : \A m \in RawMsgs, o \in Outcomes :
        (/\ ~rpc[s].isDisposed
         /\ m.type \in {Reply, ReplyErr}
         /\ m.id \notin DOMAIN rpc[s].pendingRPCReplies) =>
            Tables(receiveOneMessage(rpc[s], m, o)) = Tables(rpc[s])

\* a late reply was ignored while another call was outstanding
C8_Witness ==
    \E s \in Sides :
        /\ rpc[s].late # {}
        /\ DOMAIN rpc[s].pendingRPCReplies # {}

\* C9: the n-th remoteCall of an instance was given the call id that is the
\* decimal string of n, whether or not earlier calls had been settled, and the
\* requests handed to the multiplexer carry the ids "1", "2", ... in order.
C9_CallIdsIncrease ==
    \A s \in Sides :
        LET reqs == Requests(Out(s))
        IN /\ rpc[s].lastMessageId = Len(rpc[s].lazy)
           /\ Len(reqs) = Len(rpc[s].lazy)
           /\ \A n \in LazyIds(s) :
                 /\ rpc[s].lazy[n].req.callId = ToString(n)
                 /\ reqs[n].id = ToString(n)
           /\ \A n1, n2 \in LazyIds(s) :
                 n1 # n2 => reqs[n1].id # reqs[n2].id

\* a second call was issued when the first had been settled and removed
C9_Witness ==
    \E s \in Sides :
        /\ Len(rpc[s].lazy) = 2
        /\ rpc[s].lazy[2].req.open = 0

BatchesWith(batches, Test(_)) ==
    {i \in 1..Len(batches) : Count(batches[i], Test) >= 1}

\* C10: for every call of side c, at most one batch of c carries its Request,
\* at most one handler of the peer has its id and at most one batch of the peer
\* carries a reply with its id; once the call is settled there is exactly one of
\* each, the handler has the call's proxyId, method and arguments, it invoked
\* the actor method if the actor was registered with that method, and if the
\* method's outcome is a value the reply is a Reply and the call is resolved
\* with that value.
C10_EndToEnd ==
    \A c \in Sides : \A n \in LazyIds(c) :
        LET lp == rpc[c].lazy[n]
            a == Peer(c)
            H == {hid \in HandlerIds(a) : rpc[a].handlers[hid].callId = lp.req.callId}
            reqBatches == BatchesWith(sent[c], LAMBDA m : m.type = Request /\ m.id = lp.req.callId)
            replyBatches == BatchesWith(sent[a], LAMBDA m : m.type \in {Reply, ReplyErr} /\ m.id = lp.req.callId)
            okBatches == BatchesWith(sent[a], LAMBDA m : m.type = Reply /\ m.id = lp.req.callId)
        IN /\ Cardinality(reqBatches) <= 1
           /\ Cardinality(H) <= 1
           /\ Cardinality(replyBatches) <= 1
           /\ lp.state # "Pending" =>
                 /\ Cardinality(reqBatches) = 1
                 /\ Cardinality(H) = 1
                 /\ Cardinality(replyBatches) = 1
                 /\ \A hid \in H :
                       LET h == rpc[a].handlers[hid]
                       IN /\ h.proxyId = lp.req.proxyId
                          /\ h.method = lp.req.method
                          /\ h.args = lp.req.args
                          /\ h.thenRan
                          /\ h.invoked = (h.actor # NoActor /\ typeof(h.actor, h.method) = "function")
                          /\ (h.invoked /\ h.state = "fulfilled") =>
                                /\ Cardinality(okBatches) = 1
                                /\ lp.state = "ResolvedOk"
                                /\ lp.value = h.value

\* the call of $greet was resolved with the string the method returned
C10_Witness ==
    \E c \in Sides : \E n \in LazyIds(c) :
        /\ rpc[c].lazy[n].req.method = "$greet"
        /\ rpc[c].lazy[n].state = "ResolvedOk"
        /\ rpc[c].lazy[n].value = Str("Hello, World")
        /\ \E hid \in HandlerIds(Peer(c)) : rpc[Peer(c)].handlers[hid].invoked

\* the replies with call id c the per-message callback of side s was given
RepliesHeard(s, c) ==
    SelectSeq(rpc[s].received, LAMBDA m : m.type \in {Reply, ReplyErr} /\ m.id = c)

\* the settlement of lp is the one the reply text m asks for
SettledBy(lp, m) ==
    /\ (m.type = Reply) = (lp.state = "ResolvedOk")
    /\ (m.type = ReplyErr) = (lp.state = "ResolvedErr")
    /\ m.type = Reply => lp.value = JSONparse(m).res

C11_Safety ==
    \A c \in Sides :
        /\ \A n \in LazyIds(c) :
              LET lp == rpc[c].lazy[n]
                  heard == RepliesHeard(c, lp.req.callId)
              IN /\ lp.state = "Pending" => heard = <<>>
                 /\ lp.state # "Pending" =>
                       /\ Len(heard) = 1
                       /\ SettledBy(lp, heard[1])
                       /\ Count(Flatten(sent[Peer(c)]), LAMBDA m : m = heard[1]) = 1
        /\ \A i \in 1..Len(rpc[c].received) :
              rpc[c].received[i].type = ReplyErr =>
                 Cardinality({n \in LazyIds(c) :
                                 /\ rpc[c].lazy[n].req.callId = rpc[c].received[i].id
                                 /\ rpc[c].lazy[n].state = "ResolvedErr"}) = 1

\* no call that was issued is pending
NoCallPending ==
    \A c \in Sides : \A n \in LazyIds(c) : rpc[c].lazy[n].state # "Pending"

\* C11: over the ordered reliable channel, with both sides' callbacks running
\* and every returned promise settling, every call that was issued is
\* eventually settled (again and again all the calls issued so far are
\* settled, and a settled call stays settled); a call is pending until the one
\* reply with its id is received and is then settled as that reply says, and
\* every ReplyErr received has rejected exactly one call.
C11_EveryCallSettles ==
    /\ []C11_Safety
    /\ []<>NoCallPending

\* a call was rejected by the ReplyErr of a promise that rejected, while
\* another call was resolved
C11_Witness ==
    \E c \in Sides : \E n1, n2 \in LazyIds(c) :
        /\ rpc[c].lazy[n1].state = "ResolvedErr"
        /\ rpc[c].lazy[n2].state = "ResolvedOk"
        /\ \E hid \in HandlerIds(Peer(c)) :
              /\ rpc[Peer(c)].handlers[hid].callId = rpc[c].lazy[n1].req.callId
              /\ rpc[Peer(c)].handlers[hid].kind = "promise"

RequestIds(data) == [i \in 1..Len(Requests(data)) |-> Requests(data)[i].id]

RepliesFor(seq, c) == SelectSeq(seq, LAMBDA m : m.type \in {Reply, ReplyErr} /\ m.id = c)

\* C13: a handler whose method threw is a rejected promise from the moment the
\* request was received, like one whose returned promise rejected later; for
\* both, nothing is sent before the then callback has run, and afterwards the
\* one reply with the request's id is the ReplyErr made from the rejection
\* value, queued in the multiplexer before it is on the connection; two
\* handlers rejected with the same value, one by a throw and one by a promise,
\* send the same err and settle their callers alike.
C13_ThrowLikeRejection ==
    \A s \in Sides :
        /\ \A hid \in HandlerIds(s) :
              LET h == rpc[s].handlers[hid]
              IN /\ h.kind = "throw" => h.state = "rejected"
                 /\ (h.state = "rejected" /\ ~h.thenRan) =>
                       /\ h.callId \in DOMAIN rpc[s].invokedHandlers
                       /\ RepliesFor(Out(s), h.callId) = <<>>
                 /\ (h.state = "rejected" /\ h.thenRan) =>
                       /\ RepliesFor(Out(s), h.callId) = <<replyErr(h.callId, h.value)>>
                       /\ Len(RepliesFor(Flatten(sent[s]), h.callId)) <= 1
        /\ \A h1, h2 \in HandlerIds(s) :
              LET a == rpc[s].handlers[h1]
                  b == rpc[s].handlers[h2]
              IN (/\ a.kind = "throw" /\ b.kind = "promise"
                  /\ a.thenRan /\ b.thenRan
                  /\ b.state = "rejected" /\ a.value = b.value) =>
                    /\ RepliesFor(Out(s), a.callId)[1].err = RepliesFor(Out(s), b.callId)[1].err
                    /\ \A n1, n2 \in LazyIds(Peer(s)) :
                          LET l1 == rpc[Peer(s)].lazy[n1]
                              l2 == rpc[Peer(s)].lazy[n2]
                          IN (/\ l1.req.callId = a.callId /\ l2.req.callId = b.callId
                              /\ l1.state # "Pending" /\ l2.state # "Pending") =>
                                /\ l1.state = l2.state
                                /\ l1.value = l2.value

\* a method that threw and a method whose promise rejected with the same Error
\* have both been answered and both callers are settled
C13_Witness ==
    \E s \in Sides : \E h1, h2 \in HandlerIds(s) : \E n1, n2 \in LazyIds(Peer(s)) :
        /\ rpc[s].handlers[h1].kind = "throw" /\ rpc[s].handlers[h1].invoked
        /\ rpc[s].handlers[h2].kind = "promise"
        /\ rpc[s].handlers[h1].value = rpc[s].handlers[h2].value
        /\ rpc[s].handlers[h1].thenRan /\ rpc[s].handlers[h2].thenRan
        /\ rpc[Peer(s)].lazy[n1].req.callId = rpc[s].handlers[h1].callId
        /\ rpc[Peer(s)].lazy[n2].req.callId = rpc[s].handlers[h2].callId
        /\ rpc[Peer(s)].lazy[n1].state = "ResolvedErr"
        /\ rpc[Peer(s)].lazy[n2].state = "ResolvedErr"

\* C20: createProxy has run once for each identifier string that is a key of
\* proxies and for no other; getProxy for a key of proxies creates nothing;
\* getProxy for another identifier adds one proxy, leaves the others and then
\* creates nothing either; and no step removes a key, makes a proxy again for an identifier that has one
\* or drops a member the proxy's target has cached.
C20_OneProxyPerId ==
    [][\A s \in Sides :
          /\ {rpc[s].created[i] : i \in 1..Len(rpc[s].created)} = DOMAIN rpc[s].proxies
          /\ \A id \in DOMAIN rpc[s].proxies :
                /\ Count(rpc[s].created, LAMBDA x : x = id) = 1
                /\ getProxy(rpc[s], id) = rpc[s]
                /\ LET q == getProxy(rpc[s], "eOther")
                   IN /\ DOMAIN q.proxies = DOMAIN rpc[s].proxies \cup {"eOther"}
                      /\ q.proxies[id] = rpc[s].proxies[id]
                      /\ q.created = Append(rpc[s].created, "eOther")
                      /\ getProxy(q, "eOther") = q
                      /\ getProxy(q, id) = q
                /\ id \in DOMAIN rpc'[s].proxies
                /\ rpc[s].proxies[id] \subseteq rpc'[s].proxies[id]
          /\ Len(rpc'[s].created) >= Len(rpc[s].created)
          /\ SubSeq(rpc'[s].created, 1, Len(rpc[s].created)) = rpc[s].created]_vars

\* two calls were made through the proxy of one identifier
C20_Witness ==
    \E s \in Sides :
        /\ rpc[s].created = <<"mService">>
        /\ Len(rpc[s].lazy) >= 2
        /\ \A n \in LazyIds(s) : rpc[s].lazy[n].req.proxyId = "mService"

\* C15: a handler rejected with a value that is not an Error sends a ReplyErr
\* whose err is that value (an explicit null only for a null or undefined
\* value), and the peer's call with its id, once settled, is rejected with that
\* value.
C15_NonErrorPassedThrough ==
    \A s \in Sides : \A hid \in HandlerIds(s) :
        LET h == rpc[s].handlers[hid]
        IN (h.state = "rejected" /\ h.value.k # "Error" /\ h.thenRan) =>
              /\ \A i \in 1..Len(RepliesFor(Out(s), h.callId)) :
                    JSONparse(RepliesFor(Out(s), h.callId)[i]).err
                       = (IF h.value.k \in {"null", "undefined"} THEN Null ELSE h.value)
              /\ \A n \in LazyIds(Peer(s)) :
                    LET lp == rpc[Peer(s)].lazy[n]
                    IN (lp.req.callId = h.callId /\ lp.state # "Pending") =>
                          /\ lp.state = "ResolvedErr"
                          /\ lp.value = h.value

\* C18: in every state of the instance that receives, while live, receiving a message whose type is
\* none of 1, 2, 3 leaves every table, every handler and LazyPromise, the
\* outbound queue and the scheduled flushes as they were, and a batch that
\* holds such a message before or after another message has the effect of the
\* batch without it.
C18_UnknownTypeDropped ==
    \A s \in {"A"} : \A u \in UnknownMsgs :
        ~rpc[s].isDisposed =>
            /\ \A o \in Outcomes : Tables(receiveOneMessage(rpc[s], u, o)) = Tables(rpc[s])
            /\ \A m \in BatchMsgs :
                  \A o \in IF m.type = Request THEN Outcomes ELSE {CHOOSE x \in Outcomes : TRUE} :
                     \A q \in {Tables(onMessage(rpc[s], <<m>>, <<o>>))} :
                        /\ Tables(onMessage(rpc[s], <<u, m>>, <<o, o>>)) = q
                        /\ Tables(onMessage(rpc[s], <<m, u>>, <<o, o>>)) = q

\* with a call outstanding, a batch began with a message of type 4 and the
\* request after it was received, invoked the actor and has been answered
C18_Witness ==
    \E s \in Sides : \E k \in 1..Len(rpc[s].received) : \E hid \in HandlerIds(s) :
        /\ k % 2 = 1
        /\ k + 1 <= Len(rpc[s].received)
        /\ rpc[s].received[k].type = 4
        /\ rpc[s].received[k + 1].type = Request
        /\ rpc[s].handlers[hid].invoked
        /\ rpc[s].handlers[hid].thenRan
        /\ DOMAIN rpc[s].pendingRPCReplies # {}

\* C19: replyOK writes the res field exactly when the handler's result is not
\* undefined (null, false, 0 and "" are written), and the caller that is given
\* a reply without res has its promise resolved with undefined and its call
\* no longer outstanding.
C19_ResOmittedOnlyWhenUndefined ==
    codec.job = "replyOK" /\ codec.stage # "input" =>
        /\ ("res" \in DOMAIN codec.text) <=> (codec.res # Undefined)
        /\ (codec.stage = "decoded" /\ "res" \notin DOMAIN codec.text) =>
              /\ Outcome(codec.caller.lazy[1]) = [state |-> "ResolvedOk", value |-> Undefined]
              /\ codec.caller.pendingRPCReplies = EmptyObject

C19_Witness ==
    /\ codec.job = "replyOK"
    /\ codec.stage = "decoded"
    /\ codec.res = Undefined
    /\ "res" \notin DOMAIN codec.text
    /\ codec.caller.lazy[1].state = "ResolvedOk"

\* C16 as stated: the caller's promise is rejected with an Error that has the
\* name, message and stack of the Error the actor method failed with.
C16_ErrorRoundTrip ==
    codec.job = "replyErr" /\ codec.stage = "decoded" =>
        LET lp == codec.caller.lazy[1]
        IN /\ lp.state = "ResolvedErr"
           /\ lp.value.k = "Error"
           /\ lp.value.name = codec.err.name
           /\ lp.value.message = codec.err.message
           /\ lp.value.stack = codec.err.stack

\* C16 amended: the caller's promise is rejected with an Error that has the
\* name and message of the callee's Error, and as stack the callee Error's
\* stacktrace property when that is set and not empty, else its stack.
C16_ErrorRoundTripStacktrace ==
    codec.job = "replyErr" /\ codec.stage = "decoded" =>
        LET lp == codec.caller.lazy[1]
            e == codec.err
        IN /\ lp.state = "ResolvedErr"
           /\ lp.value.k = "Error"
           /\ lp.value.name = e.name
           /\ lp.value.message = e.message
           /\ lp.value.stack = IF "stacktrace" \in DOMAIN e /\ e.stacktrace # ""
                               THEN e.stacktrace
                               ELSE e.stack

C16_Witness ==
    /\ codec.job = "replyErr"
    /\ codec.stage = "decoded"
    /\ "stacktrace" \in DOMAIN codec.err
    /\ codec.err.stacktrace \notin {"", codec.err.stack}
    /\ codec.caller.lazy[1].state = "ResolvedErr"
    /\ codec.caller.lazy[1].value.stack = codec.err.stacktrace

\* C17 as stated: the message decoded from the text of MessageFactory.request
\* has type 1 and the id, proxyId, method and args that were encoded.
C17_RequestRoundTrip ==
    codec.job = "request" /\ codec.stage = "decoded" =>
        /\ codec.msg.k = "object"
        /\ DOMAIN codec.msg.fields = {KeyType, KeyId, KeyProxyId, KeyMethod, KeyArgs}
        /\ codec.msg.fields[KeyType] = Num(Request)
        /\ codec.msg.fields[KeyId] = StrOf(codec.id)
        /\ codec.msg.fields[KeyProxyId] = StrOf(codec.proxyId)
        /\ codec.msg.fields[KeyMethod] = StrOf(codec.method)
        /\ codec.msg.fields[KeyArgs] = codec.args

\* C14: a LazyPromise is Pending until the first resolveOk or resolveErr, has
\* the outcome of that first call ever after, and every awaiter, subscribed
\* before or after, is notified of that outcome once and of nothing else.
C14_SettledOnce ==
    codec.job = "lazy" =>
        IF codec.calls = <<>>
        THEN /\ codec.lp.state = "Pending"
             /\ \A i \in DOMAIN codec.seen : codec.seen[i].got = <<>>
        ELSE /\ Outcome(codec.lp) = Head(codec.calls)
             /\ \A i \in DOMAIN codec.seen : codec.seen[i].got = <<Head(codec.calls)>>

C14_Witness ==
    /\ codec.job = "lazy"
    /\ Len(codec.calls) >= 2
    /\ codec.calls[2] # codec.calls[1]
    /\ \E i, j \in DOMAIN codec.seen : codec.seen[i].at = 0 /\ codec.seen[j].at >= 1
    /\ \A i \in DOMAIN codec.seen : codec.seen[i].got = <<Head(codec.calls)>>

\* C21: on every side at most one flush is scheduled, one is scheduled exactly
\* when the queue is not empty, and no batch sent is empty; a step that calls
\* send (the queue grows) makes no connection.send and schedules a flush only
\* when it found the queue empty; a flush leaves the queue empty.
C21_FlushScheduling ==
    /\ [](\A s \in Sides :
             /\ rpc[s].immediates <= 1
             /\ (rpc[s].immediates = 1) <=> (rpc[s].messagesToSend # <<>>)
             /\ \A i \in 1..Len(sent[s]) : sent[s][i] # <<>>)
    /\ [][\A s \in Sides :
             /\ Len(rpc'[s].handed) > Len(rpc[s].handed) =>
                   /\ sent'[s] = sent[s]
                   /\ channel'[s] = channel[s]
                   /\ rpc'[s].immediates =
                         rpc[s].immediates + (IF rpc[s].messagesToSend = <<>> THEN 1 ELSE 0)
             /\ sent'[s] # sent[s] =>
                   /\ rpc'[s].messagesToSend = <<>>
                   /\ rpc'[s].handed = rpc[s].handed]_vars

\* a send found the queue not empty: two messages wait for the one flush
C21_Witness ==
    \E s \in Sides :
        /\ Len(rpc[s].messagesToSend) >= 2
        /\ rpc[s].immediates = 1
        /\ rpc[s].handed = rpc[s].messagesToSend

\* C22: the batches a side has sent, in order, followed by its queue, are the
\* messages its send was called with, each once and in call order.
C22_NoLossNoDuplicate ==
    \A s \in Sides : Flatten(sent[s]) \o rpc[s].messagesToSend = rpc[s].handed

\* a send came between the scheduling of a flush and its run, and the flush
\* has sent both messages in one batch
C22_Witness ==
    \E s \in Sides : \E i \in 1..Len(sent[s]) :
        /\ Len(sent[s][i]) >= 2
        /\ Flatten(sent[s]) = rpc[s].handed

\* the replies a peer may send for call id c
RepliesTo(c) ==
    {replyOK(c, Str("Hello, World")), replyOK(c, Undefined),
     replyErr(c, ErrorObj("TypeError", "boom", "TypeError: boom"))}

\* C23: on every side, a reply for one outstanding call, whichever call that
\* is, settles that call as the reply says and removes its entry, and leaves
\* every other outstanding call pending with its entry intact; every settled
\* call has the outcome of the handler the peer ran for its own id, also when
\* a call issued later was settled first.
C23_CallsIndependent ==
    \A c \in Sides :
        /\ \A y \in DOMAIN rpc[c].pendingRPCReplies : \A m \in RepliesTo(y) :
              \A q \in {receiveOneMessage(rpc[c], m, CHOOSE o \in Outcomes : TRUE)} :
                 /\ y \notin DOMAIN q.pendingRPCReplies
                 /\ SettledBy(q.lazy[rpc[c].pendingRPCReplies[y]], m)
                 /\ \A x \in DOMAIN rpc[c].pendingRPCReplies \ {y} :
                       /\ x \in DOMAIN q.pendingRPCReplies
                       /\ q.pendingRPCReplies[x] = rpc[c].pendingRPCReplies[x]
                       /\ q.lazy[q.pendingRPCReplies[x]] = rpc[c].lazy[rpc[c].pendingRPCReplies[x]]
                       /\ q.lazy[q.pendingRPCReplies[x]].state = "Pending"
        /\ \A n \in LazyIds(c) :
              LET lp == rpc[c].lazy[n]
              IN lp.state # "Pending" =>
                    \E hid \in HandlerIds(Peer(c)) :
                       LET h == rpc[Peer(c)].handlers[hid]
                       IN /\ h.callId = lp.req.callId
                          /\ h.method = lp.req.method
                          /\ h.state = "fulfilled" =>
                                lp.state = "ResolvedOk" /\ lp.value = h.value
                          /\ h.state = "rejected" =>
                                /\ lp.state = "ResolvedErr"
                                /\ h.value.k = "Error" =>
                                      /\ lp.value.name = h.value.name
                                      /\ lp.value.message = h.value.message

\* the call issued second is settled while the call issued first is pending
\* with its entry in the table
C23_Witness ==
    \E c \in Sides :
        /\ Len(rpc[c].lazy) >= 2
        /\ rpc[c].lazy[2].state # "Pending"
        /\ rpc[c].lazy[1].state = "Pending"
        /\ rpc[c].lazy[1].req.callId \in DOMAIN rpc[c].pendingRPCReplies
        /\ rpc[c].lazy[2].req.callId \notin DOMAIN rpc[c].pendingRPCReplies

\* C24: a disposed instance is left as it is by receiveOneMessage, whatever
\* Request, Reply or ReplyErr it is given and whatever the actor method would
\* do: no handler promise is made, nothing is queued or scheduled, no
\* LazyPromise is settled and no table changes.
C24_DisposedIgnoresInbound ==
    \A s \in Sides :
        rpc[s].isDisposed =>
            \A m \in RawMsgs \cup RepliesTo("2"), o \in Outcomes :
                receiveOneMessage(rpc[s], m, o) = rpc[s]

\* a disposed side with the actor registered was given a Request and has run
\* no handler for it
C24_Witness ==
    \E s \in Sides :
        /\ rpc[s].isDisposed
        /\ "mService" \in DOMAIN rpc[s].locals
        /\ \E i \in 1..Len(rpc[s].received) :
              /\ rpc[s].received[i].type = Request
              /\ \A hid \in HandlerIds(s) :
                    rpc[s].handlers[hid].callId # rpc[s].received[i].id
        /\ rpc[s].handed = <<>>

\* C25: in every state of the instance, whatever ids are in its tables:
\* receiving a Request, and running the then callbacks that send a reply,
\* leave pendingRPCReplies and every LazyPromise as they were; receiving a
\* Reply or ReplyErr leaves invokedHandlers, the handler promises, the
\* outbound queue and the scheduled flushes as they were.
C25_DirectionsIndependent ==
    \A s \in {"A"} :
        /\ \A m \in RawMsgs, o \in Outcomes :
              \A q \in {receiveOneMessage(rpc[s], m, o)} :
                 /\ m.type = Request =>
                       /\ q.pendingRPCReplies = rpc[s].pendingRPCReplies
                       /\ q.lazy = rpc[s].lazy
                 /\ m.type \in {Reply, ReplyErr} =>
                       /\ q.invokedHandlers = rpc[s].invokedHandlers
                       /\ q.handlers = rpc[s].handlers
                       /\ q.messagesToSend = rpc[s].messagesToSend
                       /\ q.immediates = rpc[s].immediates
                       /\ q.handed = rpc[s].handed
        /\ \A hid \in HandlerIds(s) :
              (rpc[s].handlers[hid].state # "pending" /\ ~rpc[s].handlers[hid].thenRan) =>
                 \A q \in {handlerThen(rpc[s], hid)} :
                    /\ q.pendingRPCReplies = rpc[s].pendingRPCReplies
                    /\ q.lazy = rpc[s].lazy

\* the instance has replied to the peer's Request 1 while its own call 1 is
\* outstanding and pending
C25_Witness ==
    \E s \in {"A"} :
        /\ "1" \in DOMAIN rpc[s].pendingRPCReplies
        /\ rpc[s].lazy[rpc[s].pendingRPCReplies["1"]].state = "Pending"
        /\ \E hid \in HandlerIds(s) :
              rpc[s].handlers[hid].callId = "1" /\ rpc[s].handlers[hid].thenRan
        /\ \E i \in 1..Len(rpc[s].handed) :
              rpc[s].handed[i].type \in {Reply, ReplyErr} /\ rpc[s].handed[i].id = "1"

\* the names of PropertyNames that start with the dollar sign
DollarNames == {"$greet", "$nope"}

\* C26: on every side and for every proxy identifier, reading a name that
\* starts with $ yields a function, and calling it on a live instance
\* allocates the next call id and hands the multiplexer one Request with the
\* proxy's id, that name and the arguments; reading any other name yields no
\* function and changes no counter, table, queue or LazyPromise.  Every
\* Request handed to the multiplexer has a name that starts with $, and there
\* is one Request per call id allocated.
C26_OnlyDollarCallable ==
    \A s \in Sides :
        /\ \A id \in ProxyIds, name \in PropertyNames, args \in ArgLists :
              LET p1 == getProxy(rpc[s], id)
                  target == proxyGet(p1.proxies[id], name)
                  p2 == [p1 EXCEPT !.proxies[id] = target]
              IN IF name \in DollarNames
                 THEN /\ name \in target
                      /\ ~p2.isDisposed =>
                            \A q \in {remoteCall(p2, id, name, args)} :
                               /\ q.lastMessageId = rpc[s].lastMessageId + 1
                               /\ q.handed =
                                     Append(rpc[s].handed,
                                            request(ToString(q.lastMessageId), id, name, args))
                               /\ Len(q.lazy) = Len(rpc[s].lazy) + 1
                               /\ DOMAIN q.pendingRPCReplies =
                                     DOMAIN rpc[s].pendingRPCReplies \cup {ToString(q.lastMessageId)}
                 ELSE /\ name \notin target
                      /\ p2 = p1
                      /\ p1.lastMessageId = rpc[s].lastMessageId
                      /\ p1.pendingRPCReplies = rpc[s].pendingRPCReplies
                      /\ p1.lazy = rpc[s].lazy
                      /\ p1.messagesToSend = rpc[s].messagesToSend
                      /\ p1.immediates = rpc[s].immediates
                      /\ p1.handed = rpc[s].handed
        /\ \A id \in DOMAIN rpc[s].proxies : rpc[s].proxies[id] \subseteq DollarNames
        /\ \A i \in 1..Len(rpc[s].handed) :
              rpc[s].handed[i].type = Request => rpc[s].handed[i].method \in DollarNames
        /\ Count(rpc[s].handed, LAMBDA m : m.type = Request) = rpc[s].lastMessageId

\* a proxy was made and a name without $ was read on it: it holds no function
\* and no call was made
C26_Witness ==
    \E s \in Sides :
        /\ "mService" \in DOMAIN rpc[s].proxies
        /\ rpc[s].proxies["mService"] = {}
        /\ rpc[s].lastMessageId = 0
        /\ rpc[s].handed = <<>>

\* the concatenation of the strings of inputs
RECURSIVE Concat(_)
Concat(inputs) ==
    IF inputs = <<>> THEN "" ELSE Head(inputs).s \o Concat(Tail(inputs))

\* C27: at most one timeout is pending and the timer field holds its handle;
\* every defined value fired was fired when at least the delay had passed
\* since the last update, is the concatenation of the defined inputs given
\* since the last update(undefined), and no other value was fired since that
\* last update; an update with a defined input fires nothing, cancels the
\* pending timeout and starts a new one; update(undefined) clears the state,
\* leaves no timeout pending and fires undefined in the same step.
C27_Throttle ==
    /\ [](/\ Cardinality(DOMAIN throttle.timeouts) <= 1
          /\ IF throttle.timer = Undefined
             THEN DOMAIN throttle.timeouts = {}
             ELSE DOMAIN throttle.timeouts = {throttle.timer.n}
          /\ \A i \in 1..Len(throttle.fired) :
                LET e == throttle.fired[i]
                IN e.value # Undefined =>
                      /\ e.at - e.lastUpdate >= ThrottleDelay
                      /\ e.inputs # <<>>
                      /\ e.value = Str(Concat(e.inputs))
                      /\ \A j \in 1..(i - 1) : throttle.fired[j].updates < e.updates)
    /\ [][throttle'.updates = throttle.updates + 1 =>
             IF throttle'.inputs = <<>>
             THEN /\ throttle'.state = Undefined
                  /\ throttle'.timer = Undefined
                  /\ DOMAIN throttle'.timeouts = {}
                  /\ Len(throttle'.fired) = Len(throttle.fired) + 1
                  /\ throttle'.fired[Len(throttle'.fired)].value = Undefined
                  /\ throttle'.fired[Len(throttle'.fired)].at = throttle.now
             ELSE /\ throttle'.fired = throttle.fired
                  /\ throttle'.handles = throttle.handles + 1
                  /\ DOMAIN throttle'.timeouts = {throttle'.handles}
                  /\ throttle'.timeouts[throttle'.handles] = throttle.now
                  /\ throttle'.timer = Num(throttle'.handles)]_vars

\* two updates came with less than the delay between them and "ab" was fired,
\* once, after the delay
C27_Witness ==
    /\ Len(throttle.fired) = 1
    /\ throttle.fired[1].value = Str("ab")
    /\ throttle.fired[1].updates = 2
    /\ throttle.handles = 2
    /\ throttle.now > throttle.fired[1].at
====
